---- MODULE Spec2Model ----
(***************************************************************************)
(* carrlink: the message codec (src/src/messages.rs), the status types     *)
(* (src/src/status.rs), the command orchestrator ControlUnit               *)
(* (src/src/control_unit.rs) and the BLE transport BackendBLE              *)
(* (src/src/backend_ble.rs).                                               *)
(*                                                                         *)
(* Bytes are the integers 0..255.  A Rust slice data[0..n] is the TLA+     *)
(* sequence of length n; At(data, i) reads the 0-based index i.            *)
(* x & 0x0F is x % 16, x >> 4 is x \div 16, u8 arithmetic is taken % 256.  *)
(***************************************************************************)
EXTENDS Integers, Sequences, FiniteSets, TLC

VARIABLES
    \* ---- codec harness: the bytes handed to the pure functions ----
    data,             \* the byte sequence under examination
    out,              \* what check_checksum / decode_* returned for data
    prev,             \* the frame (and its results) data was derived from
    mut,              \* how data was derived from prev
    frame,            \* the request frame built by a command constructor
    overflow_checks,  \* build profile: TRUE = debug (overflow panics)
    \* ---- ControlUnit over an abstract Backend ----
    timeout,          \* ControlUnit.timeout
    pc,               \* position of the operation in flight
    op,               \* the operation in flight and its arguments
    sent,             \* the calls backend.request received in this invocation
    replies,          \* what backend.request returned, call by call
    result,           \* what the operation returned
    \* ---- BackendBLE over a btleplug peripheral ----
    endpoints,        \* BackendBLE.endpoints: "Some" or "None"
    connected,        \* the peripheral's link state
    subscribed,       \* the peripheral's subscription to notify_char
    bpc,              \* the await the BackendBLE call in flight stands at
    bcall,            \* the latest BackendBLE call
    bresult,          \* what that call returned
    bsnap,            \* the backend's state when that call started
    effects,          \* peripheral calls that call has made
    requests,         \* number of request calls made so far
    pending,          \* requests the device has yet to answer
    after_disconnect  \* a disconnect returned Ok and no connect ran since

codec_vars == <<data, out, prev, mut, frame, overflow_checks>>
cu_vars == <<timeout, pc, op, sent, replies, result>>
ble_vars == <<endpoints, connected, subscribed, bpc, bcall, bresult, bsnap,
              effects, requests, pending, after_disconnect>>
vars == <<codec_vars, cu_vars, ble_vars>>

(***************************************************************************)
(* Bounds of the model.                                                    *)
(***************************************************************************)
MaxLen == 3       \* longest arbitrary byte sequence given to check_checksum
MaxRequests == 2  \* request calls made on one BackendBLE

Byte == 0..255
At(d, i) == d[i + 1]
\* &data[a..b]
Slice(d, a, b) == SubSeq(d, a + 1, b)

(***************************************************************************)
(* messages.rs: checksum                                                   *)
(***************************************************************************)
MIN_CHECKSUM_MESSAGE_LEN == 2

\* data.iter().map(|c| *c as u32).sum(): the u32 accumulator wraps only
\* for slices of more than 2^24 bytes, which no frame of the model reaches
RECURSIVE SumBytes(_)
SumBytes(s) ==
    IF s = <<>> THEN 0 ELSE Head(s) + SumBytes(Tail(s))

compute_checksum(d) == SumBytes(d) % 16

check_checksum_whole_slice(d) ==
    IF Len(d) < MIN_CHECKSUM_MESSAGE_LEN
    THEN FALSE
    ELSE LET expected == compute_checksum(Slice(d, 0, Len(d) - 1))
             actual == d[Len(d)] % 16
         IN  actual = expected
\* slips of check_checksum: the leading byte summed too, and a slice that
\* stops one byte early
check_checksum_short_slice(d) ==
    IF Len(d) < MIN_CHECKSUM_MESSAGE_LEN
    THEN FALSE
    ELSE LET expected == compute_checksum(Slice(d, 1, Len(d) - 2))
             actual == d[Len(d)] % 16
         IN  actual = expected
check_checksum(d) ==
    IF Len(d) < MIN_CHECKSUM_MESSAGE_LEN
    THEN FALSE
    ELSE LET expected == compute_checksum(Slice(d, 1, Len(d) - 1))
             actual == d[Len(d)] % 16
         IN  actual = expected

(***************************************************************************)
(* messages.rs: nibble and address encoding                                *)
(***************************************************************************)
UINT32_SIZE == 8

\* The u32 is kept as its two 16-bit halves (the checker's integers are
\* 32-bit signed): hi holds bits 31..16, lo holds bits 15..0.
decode_uint32(d) ==
    [hi |->   (At(d, 0) % 16) * 256
            + (At(d, 1) % 16) * 4096
            + (At(d, 2) % 16)
            + (At(d, 3) % 16) * 16,
     lo |->   (At(d, 4) % 16) * 256
            + (At(d, 5) % 16) * 4096
            + (At(d, 6) % 16)
            + (At(d, 7) % 16) * 16]

VALUE_BASE == 48

encode_nibble(value) == VALUE_BASE + (value % 16)

encode_player_address(address_offset, player) ==
    (((player % 8) * 32) % 256) + (address_offset % 32)

(***************************************************************************)
(* status.rs                                                               *)
(***************************************************************************)
MAX_CONTROLLER_COUNT == 8

\* impl TryFrom<u8> for StartSignal
StartSignal_try_from(v) ==
    CASE v = 0 -> "None"
      [] v = 2 -> "Five"
      [] v = 3 -> "Four"
      [] v = 4 -> "Three"
      [] v = 5 -> "Two"
      [] v = 6 -> "One"
      [] v = 7 -> "Go"
      [] OTHER -> "Err"

\* Option::None of the decoders
NoValue == [tag |-> "None"]
\* the thread panicked (arithmetic overflow with overflow checks on)
Panicked == [tag |-> "Panic"]

(***************************************************************************)
(* messages.rs: response decoding                                          *)
(***************************************************************************)
FUEL_LEVEL_OFFSET == 2
START_SIGNAL_OFFSET == FUEL_LEVEL_OFFSET + 8
TRACK_MODE_OFFSET == START_SIGNAL_OFFSET + 1
IS_REFUELING_OFFSET == TRACK_MODE_OFFSET + 1
CONTROLLER_COUNT_OFFSET == IS_REFUELING_OFFSET + 2
CHECKSUM_OFFSET == CONTROLLER_COUNT_OFFSET + 1
SHORT_RESPONSE_SIZE == CHECKSUM_OFFSET + 1
LONG_RESPONSE_SIZE == SHORT_RESPONSE_SIZE + 2

\* the fields of a TrackStatus decoded from a frame that passed the checks
TrackFields(d) ==
    LET track_mode == At(d, TRACK_MODE_OFFSET)
        refuel_mask == (At(d, IS_REFUELING_OFFSET) % 16)
                       + (((At(d, IS_REFUELING_OFFSET) % 16) * 16) % 256)
    IN  [tag |-> "Track",
         fuel_levels |->
             [i \in 1..MAX_CONTROLLER_COUNT |->
                 At(d, FUEL_LEVEL_OFFSET + i - 1) % 16],
         start_signal |-> StartSignal_try_from(At(d, START_SIGNAL_OFFSET) % 16),
         is_fuel_enabled |-> (track_mode % 2) # 0,
         is_real_fuel_enabled |-> ((track_mode \div 2) % 2) # 0,
         is_pit_lane_connected |-> (track_mode % 2) # 0,
         is_lap_counter_connected |-> ((track_mode \div 2) % 2) # 0,
         is_refueling |->
             [i \in 1..MAX_CONTROLLER_COUNT |->
                 ((refuel_mask \div (2 ^ (i - 1))) % 2) # 0],
         controller_count |-> At(d, CONTROLLER_COUNT_OFFSET) % 16]

\* slip of decode_track_status: the checksum test left out
decode_track_status_no_checksum(d) ==
    IF Len(d) # SHORT_RESPONSE_SIZE /\ Len(d) # LONG_RESPONSE_SIZE
    THEN NoValue
    ELSE IF At(d, 0) # 63 /\ At(d, 1) # 58
    THEN NoValue
    ELSE IF StartSignal_try_from(At(d, START_SIGNAL_OFFSET) % 16) = "Err"
    THEN NoValue
    ELSE TrackFields(d)
decode_track_status(d) ==
    IF Len(d) # SHORT_RESPONSE_SIZE /\ Len(d) # LONG_RESPONSE_SIZE
    THEN NoValue
    ELSE IF At(d, 0) # 63 /\ At(d, 1) # 58
    THEN NoValue
    ELSE IF ~check_checksum(d)
    THEN NoValue
    ELSE IF StartSignal_try_from(At(d, START_SIGNAL_OFFSET) % 16) = "Err"
    THEN NoValue
    ELSE TrackFields(d)

CONTROLLER_OFFSET == 1
TIME_OFFSET == CONTROLLER_OFFSET + 1
SECTOR_OFFSET == TIME_OFFSET + 8
LAP_CHECKSUM_OFFSET == SECTOR_OFFSET + 1
LAP_RESPONSE_SIZE == LAP_CHECKSUM_OFFSET + 1

\* slip of decode_lap_status: the short track length passes the length test
decode_lap_status_track_length(d) ==
    IF Len(d) # LAP_RESPONSE_SIZE /\ Len(d) # SHORT_RESPONSE_SIZE
    THEN NoValue
    ELSE IF At(d, 0) # 63
    THEN NoValue
    ELSE IF ~check_checksum(d)
    THEN NoValue
    ELSE IF At(d, CONTROLLER_OFFSET) % 16 = 0 /\ overflow_checks
    THEN Panicked
    ELSE [tag |-> "Lap",
          controller |-> ((At(d, CONTROLLER_OFFSET) % 16) - 1) % 256,
          time |-> decode_uint32(Slice(d, TIME_OFFSET, TIME_OFFSET + UINT32_SIZE)),
          sector |-> At(d, SECTOR_OFFSET) % 16]

\* (data[CONTROLLER_OFFSET] & 0x0F) - 1 is u8 arithmetic: with a zero nibble
\* it panics when overflow checks are compiled in and wraps to 255 otherwise.
decode_lap_status(d) ==
    IF Len(d) # LAP_RESPONSE_SIZE
    THEN NoValue
    ELSE IF At(d, 0) # 63
    THEN NoValue
    ELSE IF ~check_checksum(d)
    THEN NoValue
    ELSE IF At(d, CONTROLLER_OFFSET) % 16 = 0 /\ overflow_checks
    THEN Panicked
    ELSE [tag |-> "Lap",
          controller |-> ((At(d, CONTROLLER_OFFSET) % 16) - 1) % 256,
          time |-> decode_uint32(Slice(d, TIME_OFFSET, TIME_OFFSET + UINT32_SIZE)),
          sector |-> At(d, SECTOR_OFFSET) % 16]

decode_status(d) ==
    LET track == decode_track_status(d)
    IN  IF track # NoValue THEN track ELSE decode_lap_status(d)

VERSION_RESPONSE_SIZE == 6

decode_version(d) ==
    IF Len(d) # VERSION_RESPONSE_SIZE
    THEN NoValue
    ELSE IF At(d, 0) # 48
    THEN NoValue
    ELSE IF ~check_checksum(d)
    THEN NoValue
    ELSE [tag |-> "Version", text |-> Slice(d, 1, Len(d) - 1)]

\* slip of decode_empty: the response's checksum is looked at as well
decode_empty_with_checksum(data_in, data_out) ==
    IF Len(data_out) > 0 /\ Len(data_in) > 0 /\ At(data_out, 0) = At(data_in, 0)
       /\ check_checksum(data_out)
    THEN [tag |-> "Unit"]
    ELSE NoValue
decode_empty(data_in, data_out) ==
    IF Len(data_out) > 0 /\ Len(data_in) > 0 /\ At(data_out, 0) = At(data_in, 0)
    THEN [tag |-> "Unit"]
    ELSE NoValue

(***************************************************************************)
(* messages.rs: command construction                                       *)
(***************************************************************************)
STATUS_REQUEST == <<63>>
VERSION_REQUEST == <<48>>

make_button_press_request(button) ==
    LET head == <<84, encode_nibble(button)>>
    IN  Append(head, compute_checksum(head))

make_set_word_request(address, value, repetitions) ==
    LET head == <<74, address % 16, address \div 16,
                  encode_nibble(value), encode_nibble(repetitions)>>
    IN  Append(head, compute_checksum(head))

make_reset_positions_request == make_set_word_request(6, 9, 1)

make_reset_clock_request ==
    LET head == <<61, encode_nibble(1), encode_nibble(0)>>
    IN  Append(head, compute_checksum(head))

make_set_speed_level_request(player, value) ==
    make_set_word_request(encode_player_address(0, player), value, 2)

make_set_brake_level_request(player, value) ==
    make_set_word_request(encode_player_address(1, player), value, 2)

make_set_fuel_level_request(player, value) ==
    make_set_word_request(encode_player_address(2, player), value, 2)

make_set_lap_low_request(value) == make_set_word_request(242, value, 1)

make_set_lap_high_request(value) == make_set_word_request(241, value, 1)

(***************************************************************************)
(* State after construction.                                               *)
(***************************************************************************)
NoOp == [name |-> "none"]
NoResult == [tag |-> "NoResult"]

\* ControlUnit::new(backend)
ControlUnit_new ==
    /\ timeout = 2000
    /\ pc = "idle"
    /\ op = NoOp
    /\ sent = <<>>
    /\ replies = <<>>
    /\ result = NoResult

NoEffects == [unsubscribe |-> 0, disconnect |-> 0, write |-> 0]

\* BackendBLE::new(peripheral), before the peripheral was ever connected
BackendBLE_new ==
    /\ endpoints = "None"
    /\ connected = FALSE
    /\ subscribed = FALSE
    /\ bpc = "idle"
    /\ bcall = NoOp
    /\ bresult = NoResult
    /\ bsnap = [endpoints |-> "None", connected |-> FALSE, subscribed |-> FALSE,
                after_disconnect |-> FALSE]
    /\ effects = NoEffects
    /\ requests = 0
    /\ pending = {}
    /\ after_disconnect = FALSE

(***************************************************************************)
(* The codec applied to bytes from the wire.                               *)
(***************************************************************************)
NotRun == [tag |-> "NotRun"]
NoPrev == [tag |-> "NoPrev"]
NoMut == [kind |-> "none"]

ByteSample == {0, 1, 15, 16, 49, 255}

RECURSIVE SeqsUpTo(_, _)
SeqsUpTo(S, n) ==
    IF n = 0 THEN {<<>>}
    ELSE LET shorter == SeqsUpTo(S, n - 1)
         IN  shorter \cup {Append(q, b) : q \in {r \in shorter : Len(r) = n - 1}, b \in S}

\* every byte sequence over ByteSample of length 0..MaxLen
SmallSeqs == SeqsUpTo(ByteSample, MaxLen)

\* status-shaped responses: the marker bytes, the byte at the start-signal
\* offset and the trailing byte vary, every other byte is '0'
FrameLens == {12, 14, 16, 18}
Markers0 == {63, 48}
Markers1 == {58, 49, 48}
SignalBytes == {48 + k : k \in 0..9} \cup {63}
TrailBytes == {48 + k : k \in 0..15}

MakeFrame(n, m0, m1, s, c) ==
    [i \in 1..n |->
        IF i = n THEN c
        ELSE IF i = 1 THEN m0
        ELSE IF i = 2 THEN m1
        ELSE IF i = 11 THEN s
        ELSE 48]

StatusFrames ==
    {MakeFrame(n, m0, m1, s, c) :
        n \in FrameLens, m0 \in Markers0, m1 \in Markers1,
        s \in SignalBytes, c \in TrailBytes}

\* lap-shaped responses: 12 bytes led by '?', with the controller byte, the
\* eight time bytes, the sector byte and the trailing byte varying
ControllerBytes == {48, 49, 56, 63}
SectorBytes == {48, 51}
TimeFields ==
    {[i \in 1..UINT32_SIZE |-> IF i = p THEN 48 + v ELSE 48] :
        p \in 1..UINT32_SIZE, v \in {1, 15}}
    \cup {<<49, 50, 51, 52, 53, 54, 55, 56>>}

LapFrames ==
    {<<63, c>> \o t \o <<s, k>> :
        c \in ControllerBytes, t \in TimeFields,
        s \in SectorBytes, k \in TrailBytes}

CodecIdle ==
    /\ out = NotRun
    /\ prev = NoPrev
    /\ mut = NoMut
    /\ frame = <<>>

\* the functions of messages.rs applied to data
Examine ==
    /\ out = NotRun
    /\ out' = [tag |-> "Examined",
               valid |-> check_checksum(data),
               track |-> decode_track_status(data),
               lap |-> decode_lap_status(data),
               status |-> decode_status(data)]
    /\ UNCHANGED <<data, prev, mut, frame, overflow_checks>>
    /\ UNCHANGED <<cu_vars, ble_vars>>

\* one byte of an examined frame is replaced by a different byte
ReplaceByte(i, b) ==
    /\ out # NotRun
    /\ prev = NoPrev
    /\ i \in 0..(Len(data) - 1)
    /\ b # At(data, i)
    /\ prev' = [data |-> data, out |-> out]
    /\ data' = [data EXCEPT ![i + 1] = b]
    /\ mut' = [kind |-> "replace", index |-> i, value |-> b]
    /\ out' = NotRun
    /\ UNCHANGED <<frame, overflow_checks>>
    /\ UNCHANGED <<cu_vars, ble_vars>>

\* x with bit k inverted
FlipBit(x, k) == IF (x \div (2 ^ k)) % 2 = 1 THEN x - 2 ^ k ELSE x + 2 ^ k

\* one bit of the trailing byte of an examined frame is inverted
FlipTrailingBit(k) ==
    /\ out # NotRun
    /\ prev = NoPrev
    /\ Len(data) > 0
    /\ prev' = [data |-> data, out |-> out]
    /\ data' = [data EXCEPT ![Len(data)] = FlipBit(data[Len(data)], k)]
    /\ mut' = [kind |-> "flip", bit |-> k]
    /\ out' = NotRun
    /\ UNCHANGED <<frame, overflow_checks>>
    /\ UNCHANGED <<cu_vars, ble_vars>>

ChecksumInit ==
    /\ data \in SmallSeqs
    /\ overflow_checks \in BOOLEAN
    /\ CodecIdle
    /\ ControlUnit_new
    /\ BackendBLE_new

ChecksumNext ==
    \/ Examine
    \/ \E i \in 0..MaxLen, b \in ByteSample : ReplaceByte(i, b)

ChecksumSpec == ChecksumInit /\ [][ChecksumNext]_vars

DecodeInit ==
    /\ data \in StatusFrames \cup LapFrames
    /\ overflow_checks \in BOOLEAN
    /\ CodecIdle
    /\ ControlUnit_new
    /\ BackendBLE_new

DecodeNext ==
    \/ Examine
    \/ \E k \in 0..7 : FlipTrailingBit(k)

DecodeSpec == DecodeInit /\ [][DecodeNext]_vars

(***************************************************************************)
(* decode_empty applied to a request and a response.                       *)
(***************************************************************************)
\* 0, '1', '=', 'J', 'T'
AckBytes == {0, 49, 61, 74, 84}

\* responses: every byte sequence over AckBytes of length 0..MaxLen
AckResponses == SeqsUpTo(AckBytes, MaxLen)

\* requests: no bytes at all, and frames of the write-only commands
AckRequests ==
    {<<>>, <<49>>,
     make_button_press_request(2),
     make_reset_positions_request,
     make_reset_clock_request}

\* decode_empty(&request, &response) with frame the request, data the response
Acknowledge ==
    /\ out = NotRun
    /\ out' = [tag |-> "Acknowledged", empty |-> decode_empty(frame, data)]
    /\ UNCHANGED <<data, prev, mut, frame, overflow_checks>>
    /\ UNCHANGED <<cu_vars, ble_vars>>

AckInit ==
    /\ data \in AckResponses
    /\ frame \in AckRequests
    /\ overflow_checks \in BOOLEAN
    /\ out = NotRun
    /\ prev = NoPrev
    /\ mut = NoMut
    /\ ControlUnit_new
    /\ BackendBLE_new

AckNext ==
    \/ Acknowledge
    \/ \E i \in 0..MaxLen, b \in AckBytes : ReplaceByte(i, b)

AckSpec == AckInit /\ [][AckNext]_vars

(***************************************************************************)
(* The command constructors applied to their arguments.                    *)
(***************************************************************************)
Players == {0, 1, 7, 8, 255}

\* what a constructor call leaves alone
BuildKeeps ==
    /\ UNCHANGED <<data, out, prev, overflow_checks>>
    /\ UNCHANGED <<cu_vars, ble_vars>>

Call_make_button_press_request(button) ==
    /\ frame = <<>>
    /\ frame' = make_button_press_request(button)
    /\ mut' = [kind |-> "make_button_press_request", args |-> <<button>>]
    /\ BuildKeeps

Call_make_reset_positions_request ==
    /\ frame = <<>>
    /\ frame' = make_reset_positions_request
    /\ mut' = [kind |-> "make_reset_positions_request", args |-> <<>>]
    /\ BuildKeeps

Call_make_reset_clock_request ==
    /\ frame = <<>>
    /\ frame' = make_reset_clock_request
    /\ mut' = [kind |-> "make_reset_clock_request", args |-> <<>>]
    /\ BuildKeeps

Call_make_set_speed_level_request(player, value) ==
    /\ frame = <<>>
    /\ frame' = make_set_speed_level_request(player, value)
    /\ mut' = [kind |-> "make_set_speed_level_request", args |-> <<player, value>>]
    /\ BuildKeeps

Call_make_set_brake_level_request(player, value) ==
    /\ frame = <<>>
    /\ frame' = make_set_brake_level_request(player, value)
    /\ mut' = [kind |-> "make_set_brake_level_request", args |-> <<player, value>>]
    /\ BuildKeeps

Call_make_set_fuel_level_request(player, value) ==
    /\ frame = <<>>
    /\ frame' = make_set_fuel_level_request(player, value)
    /\ mut' = [kind |-> "make_set_fuel_level_request", args |-> <<player, value>>]
    /\ BuildKeeps

Call_make_set_lap_low_request(value) ==
    /\ frame = <<>>
    /\ frame' = make_set_lap_low_request(value)
    /\ mut' = [kind |-> "make_set_lap_low_request", args |-> <<value>>]
    /\ BuildKeeps

Call_make_set_lap_high_request(value) ==
    /\ frame = <<>>
    /\ frame' = make_set_lap_high_request(value)
    /\ mut' = [kind |-> "make_set_lap_high_request", args |-> <<value>>]
    /\ BuildKeeps

BuildInit ==
    /\ data = <<>>
    /\ overflow_checks \in BOOLEAN
    /\ CodecIdle
    /\ ControlUnit_new
    /\ BackendBLE_new

BuildNext ==
    \/ \E button \in Byte : Call_make_button_press_request(button)
    \/ Call_make_reset_positions_request
    \/ Call_make_reset_clock_request
    \/ \E player \in Players, value \in Byte :
          Call_make_set_speed_level_request(player, value)
    \/ \E player \in Players, value \in Byte :
          Call_make_set_brake_level_request(player, value)
    \/ \E player \in Players, value \in Byte :
          Call_make_set_fuel_level_request(player, value)
    \/ \E value \in Byte : Call_make_set_lap_low_request(value)
    \/ \E value \in Byte : Call_make_set_lap_high_request(value)

BuildSpec == BuildInit /\ [][BuildNext]_vars

(***************************************************************************)
(* control_unit.rs: ControlUnit over a Backend.                            *)
(* backend.request is the Backend trait's method: it returns Ok(bytes) or  *)
(* Err(error), chosen by the backend.                                      *)
(***************************************************************************)
Ok(v) == [tag |-> "Ok", value |-> v]
Err(e) == [tag |-> "Err", error |-> e]

decode_result_to_error_default(r) ==
    IF r # NoValue THEN Ok(r) ELSE Ok([tag |-> "Default"])
decode_result_to_error(r) ==
    IF r # NoValue THEN Ok(r) ELSE Err("InvalidResponse")

BUTTON_ESCAPE == 1
BUTTON_ENTER == 2
BUTTON_SPEED == 5
BUTTON_BRAKE == 6
BUTTON_FUEL == 7
BUTTON_CODE == 8

\* usize as u8
AsU8(x) == x % 256

Timeouts == {500, 2000}
\* errors a Backend may return from request
BackendErrors == {"TimedOut", "NotConnected", "InvalidResponse"}
\* bytes a Backend may return from request: status frames with a good and a
\* bad trailing byte, a version frame, acknowledgements, and junk
Responses ==
    {MakeFrame(16, 63, 58, 48, c) : c \in {58, 59}}
    \cup {MakeFrame(16, 63, 49, 48, 49)}
    \cup {MakeFrame(12, 63, m1, 48, c) : m1 \in {48, 49}, c \in {48, 49}}
    \cup {<<48, 51, 51, 51, 55, 48>>, <<48, 51, 51, 51, 55, 49>>}
    \cup {<<84, 0>>, <<74>>, <<61, 36>>, <<85>>, <<>>}
BackendReturns == {Ok(b) : b \in Responses} \cup {Err(e) : e \in BackendErrors}

PlayerArgs == {0, 7, 9}
LevelArgs == {0, 15, 16, 300}
LapArgs == {0, 18, 255, 291}

Ready == pc \in {"idle", "returned"}
Last(q) == q[Len(q)]

\* self.backend.request(&request, self.timeout) is called and awaited
Request(name, args, req, decoder) ==
    /\ op' = [name |-> name, args |-> args, request |-> req,
              decoder |-> decoder]
    /\ sent' = <<[data |-> req, timeout |-> timeout]>>
    /\ replies' = <<>>
    /\ result' = NoResult
    /\ pc' = "await"
    /\ UNCHANGED timeout
    /\ UNCHANGED <<codec_vars, ble_vars>>

\* op, sent, replies and result describe the latest operation that
\* exchanges frames; set_timeout starts afresh
set_timeout(t) ==
    /\ Ready
    /\ timeout' = t
    /\ pc' = "idle"
    /\ op' = NoOp
    /\ sent' = <<>>
    /\ replies' = <<>>
    /\ result' = NoResult
    /\ UNCHANGED <<codec_vars, ble_vars>>

get_status ==
    /\ Ready
    /\ Request("get_status", <<>>, STATUS_REQUEST, "status")

get_version ==
    /\ Ready
    /\ Request("get_version", <<>>, VERSION_REQUEST, "version")

press_button(name, button) ==
    Request(name, <<>>, make_button_press_request(button), "empty")

press_enter ==
    /\ Ready
    /\ press_button("press_enter", BUTTON_ENTER)

press_esc ==
    /\ Ready
    /\ press_button("press_esc", BUTTON_ESCAPE)

press_speed ==
    /\ Ready
    /\ press_button("press_speed", BUTTON_SPEED)

press_brake ==
    /\ Ready
    /\ press_button("press_brake", BUTTON_BRAKE)

press_fuel ==
    /\ Ready
    /\ press_button("press_fuel", BUTTON_FUEL)

press_code ==
    /\ Ready
    /\ press_button("press_code", BUTTON_CODE)

reset_positions ==
    /\ Ready
    /\ Request("reset_positions", <<>>, make_reset_positions_request, "empty")

reset_clock ==
    /\ Ready
    /\ Request("reset_clock", <<>>, make_reset_clock_request, "empty")

\* slip of set_speed_level: the level clamped to [0, 15] before it is encoded
set_speed_level_clamped(player, speed) ==
    /\ Ready
    /\ Request("set_speed_level", <<player, speed>>,
               make_set_speed_level_request(
                   AsU8(player), IF speed > 15 THEN 15 ELSE speed), "empty")

set_speed_level(player, speed) ==
    /\ Ready
    /\ Request("set_speed_level", <<player, speed>>,
               make_set_speed_level_request(AsU8(player), AsU8(speed)), "empty")

set_brake_level(player, brake) ==
    /\ Ready
    /\ Request("set_brake_level", <<player, brake>>,
               make_set_brake_level_request(AsU8(player), AsU8(brake)), "empty")

set_fuel_level(player, brake) ==
    /\ Ready
    /\ Request("set_fuel_level", <<player, brake>>,
               make_set_fuel_level_request(AsU8(player), AsU8(brake)), "empty")

\* set_lap_low / set_lap_high build their request from lap
set_lap_low_request(lap) == make_set_lap_low_request(AsU8(lap) % 16)
set_lap_high_request(lap) == make_set_lap_high_request(AsU8(lap) \div 16)

\* slip of set_lap: the low nibble sent first
set_lap_low_first(lap) ==
    /\ Ready
    /\ Request("set_lap", <<lap>>, set_lap_low_request(lap), "empty")
\* set_lap up to the await inside set_lap_high
set_lap(lap) ==
    /\ Ready
    /\ Request("set_lap", <<lap>>, set_lap_high_request(lap), "empty")

\* the decoder an operation runs on the response
Decoded(o, bytes) ==
    CASE o.decoder = "status" -> decode_status(bytes)
      [] o.decoder = "version" -> decode_version(bytes)
      [] o.decoder = "empty" -> decode_empty(o.request, bytes)

\* the rest of an operation once backend.request has returned r:
\* `?` returns the error as it is, otherwise the decoder's result is mapped
Outcome(o, r) ==
    IF r.tag = "Err" THEN r
    ELSE IF Decoded(o, r.value) = Panicked THEN Panicked
    ELSE decode_result_to_error(Decoded(o, r.value))

Finish(r) ==
    /\ replies' = Append(replies, r)
    /\ result' = Outcome(op, r)
    /\ pc' = IF Outcome(op, r) = Panicked THEN "panicked" ELSE "returned"
    /\ UNCHANGED <<timeout, op, sent>>
    /\ UNCHANGED <<codec_vars, ble_vars>>

\* slip: a timed-out request is sent once more
request_returns_retry(r) ==
    /\ pc = "await"
    /\ op.name # "set_lap"
    /\ IF r = Err("TimedOut") /\ Len(sent) < 2
       THEN /\ sent' = Append(sent, [data |-> op.request, timeout |-> timeout])
            /\ replies' = Append(replies, r)
            /\ UNCHANGED <<timeout, pc, op, result>>
            /\ UNCHANGED <<codec_vars, ble_vars>>
       ELSE Finish(r)
\* backend.request returns to a single-exchange operation, which runs on to
\* its return
request_returns(r) ==
    /\ pc = "await"
    /\ op.name # "set_lap"
    /\ Finish(r)

\* backend.request returns inside set_lap_high: on success set_lap goes on
\* to set_lap_low and awaits its request
set_lap_high_returns(r) ==
    /\ pc = "await"
    /\ op.name = "set_lap"
    /\ Len(sent) = 1
    /\ IF Outcome(op, r).tag = "Ok"
       THEN /\ replies' = Append(replies, r)
            /\ op' = [op EXCEPT !.request = set_lap_low_request(op.args[1])]
            /\ sent' = Append(sent, [data |-> set_lap_low_request(op.args[1]),
                                     timeout |-> timeout])
            /\ UNCHANGED <<timeout, pc, result>>
            /\ UNCHANGED <<codec_vars, ble_vars>>
       ELSE Finish(r)

\* backend.request returns inside set_lap_low
set_lap_low_returns(r) ==
    /\ pc = "await"
    /\ op.name = "set_lap"
    /\ Len(sent) = 2
    /\ Finish(r)

Init ==
    /\ ControlUnit_new
    /\ BackendBLE_new
    /\ data = <<>>
    /\ overflow_checks \in BOOLEAN
    /\ CodecIdle

Next ==
    \/ \E t \in Timeouts : set_timeout(t)
    \/ get_status
    \/ get_version
    \/ press_enter
    \/ press_esc
    \/ press_speed
    \/ press_brake
    \/ press_fuel
    \/ press_code
    \/ reset_positions
    \/ reset_clock
    \/ \E player \in PlayerArgs, speed \in LevelArgs : set_speed_level(player, speed)
    \/ \E player \in PlayerArgs, brake \in LevelArgs : set_brake_level(player, brake)
    \/ \E player \in PlayerArgs, brake \in LevelArgs : set_fuel_level(player, brake)
    \/ \E lap \in LapArgs : set_lap(lap)
    \/ \E r \in BackendReturns : request_returns(r)
    \/ \E r \in BackendReturns : set_lap_high_returns(r)
    \/ \E r \in BackendReturns : set_lap_low_returns(r)

Spec == Init /\ [][Next]_vars


(***************************************************************************)
(* backend_ble.rs: BackendBLE over a btleplug Peripheral.                  *)
(* Every peripheral call is awaited and returns Ok or a btleplug::Error,   *)
(* chosen by the peripheral.  connect, disconnect and request run inside   *)
(* tokio::time::timeout: while the call stands at an await the timer may   *)
(* fire, the call is dropped there and Error::TimedOut is returned.        *)
(***************************************************************************)
\* btleplug errors a peripheral call may return
PeripheralErrors == {"NotConnected", "TimedOut", "Other"}
\* the peripheral reports NotConnected only while the link is down
Plausible(r) == (r.tag = "Err" /\ r.error = "NotConnected") => ~connected
PeripheralReturns == {Ok("unit")} \cup {Err(e) : e \in PeripheralErrors}
\* what peripheral.is_connected() may return
IsConnectedReturns == {Ok(TRUE), Ok(FALSE)} \cup {Err(e) : e \in PeripheralErrors}

\* impl From<btleplug::Error> for crate::Error
From_btleplug_Error(e) ==
    CASE e = "DeviceNotFound" -> "DeviceNotFound"
      [] e = "PermissionDenied" -> "PermissionDenied"
      [] e = "NotConnected" -> "NotConnected"
      [] e = "NotSupported" -> "NotSupported"
      [] e = "TimedOut" -> "TimedOut"
      [] e = "RuntimeError" -> "RuntimeError"
      [] OTHER -> "Other"

as_timeout_error(e) == "TimedOut"

\* frames given to BackendBLE::request
RequestData == {STATUS_REQUEST, make_button_press_request(BUTTON_ENTER), <<>>}

\* the notification the device emits in answer to request number n: with
\* the trailing '$' and without the command character, as it is, or empty
NotificationForms == {"dollar", "plain", "empty"}
Notification(n, form) ==
    CASE form = "dollar" -> <<48 + n, 36>>
      [] form = "plain" -> <<63, 48 + n>>
      [] form = "empty" -> <<>>

BReady == bpc \in {"idle", "returned"}

\* a BackendBLE method is called
Begin(name, d, serial) ==
    /\ bcall' = [name |-> name, data |-> d, serial |-> serial,
                 failed |-> "none", last |-> "start", delivered |-> 0]
    /\ bsnap' = [endpoints |-> endpoints, connected |-> connected,
                 subscribed |-> subscribed, after_disconnect |-> after_disconnect]

\* the call in flight returns res; failed names the peripheral call that
\* failed, if one did
BReturn(res, failed) ==
    /\ bresult' = res
    /\ bpc' = "returned"
    /\ bcall' = [bcall EXCEPT !.failed = failed, !.last = bpc]

BKeeps == UNCHANGED <<codec_vars, cu_vars>>

\* ---- connect / connect_internal ----
connect ==
    /\ BReady
    /\ Begin("connect", <<>>, 0)
    /\ bresult' = NoResult
    /\ effects' = NoEffects
    /\ bpc' = "c_is_connected"
    /\ after_disconnect' = FALSE
    /\ UNCHANGED <<endpoints, connected, subscribed, requests, pending>>
    /\ BKeeps

\* self.peripheral.is_connected().await?
connect_is_connected_returns(r) ==
    /\ bpc = "c_is_connected"
    /\ Plausible(r)
    /\ r \in {Ok(connected)} \cup {Err(e) : e \in PeripheralErrors}
    /\ IF r.tag = "Err"
       THEN BReturn(Err(From_btleplug_Error(r.error)), "is_connected")
       ELSE /\ bpc' = IF r.value THEN "c_discover" ELSE "c_connect"
            /\ UNCHANGED <<bcall, bresult>>
    /\ UNCHANGED <<endpoints, connected, subscribed, bsnap, effects, requests,
                   pending, after_disconnect>>
    /\ BKeeps

\* self.peripheral.connect().await?
connect_connect_returns(r) ==
    /\ bpc = "c_connect"
    /\ Plausible(r)
    /\ IF r.tag = "Err"
       THEN /\ BReturn(Err(From_btleplug_Error(r.error)), "connect")
            /\ UNCHANGED connected
       ELSE /\ connected' = TRUE
            /\ bpc' = "c_discover"
            /\ UNCHANGED <<bcall, bresult>>
    /\ UNCHANGED <<endpoints, subscribed, bsnap, effects, requests, pending,
                   after_disconnect>>
    /\ BKeeps

\* self.peripheral.discover_services().await? and the lookup of the service
\* and its two characteristics; subscribe is called when they are found
connect_discover_returns(r, found) ==
    /\ bpc = "c_discover"
    /\ Plausible(r)
    /\ IF r.tag = "Err"
       THEN BReturn(Err(From_btleplug_Error(r.error)), "discover_services")
       ELSE IF ~found
       THEN BReturn(Err(From_btleplug_Error("NoSuchCharacteristic")), "lookup")
       ELSE /\ bpc' = "c_subscribe"
            /\ UNCHANGED <<bcall, bresult>>
    /\ UNCHANGED <<endpoints, connected, subscribed, bsnap, effects, requests,
                   pending, after_disconnect>>
    /\ BKeeps

\* self.peripheral.subscribe(&notify_char).await?; self.endpoints = Some(..)
connect_subscribe_returns(r) ==
    /\ bpc = "c_subscribe"
    /\ Plausible(r)
    /\ IF r.tag = "Err"
       THEN /\ BReturn(Err(From_btleplug_Error(r.error)), "subscribe")
            /\ UNCHANGED <<endpoints, subscribed>>
       ELSE /\ subscribed' = TRUE
            /\ endpoints' = "Some"
            /\ BReturn(Ok("unit"), "none")
    /\ UNCHANGED <<connected, bsnap, effects, requests, pending, after_disconnect>>
    /\ BKeeps

\* ---- disconnect / disconnect_internal ----
\* slip: unsubscribe called whether or not endpoints are stored
disconnect_always_unsubscribes ==
    /\ BReady
    /\ Begin("disconnect", <<>>, 0)
    /\ bresult' = NoResult
    /\ bpc' = "d_unsubscribe"
    /\ effects' = [NoEffects EXCEPT !.unsubscribe = 1]
    /\ UNCHANGED <<endpoints, connected, subscribed, requests, pending,
                   after_disconnect>>
    /\ BKeeps
\* match &self.endpoints: Some -> unsubscribe is called; None -> endpoints
\* is set to None (as it was) and is_connected is called
disconnect ==
    /\ BReady
    /\ Begin("disconnect", <<>>, 0)
    /\ bresult' = NoResult
    /\ IF endpoints = "Some"
       THEN /\ bpc' = "d_unsubscribe"
            /\ effects' = [NoEffects EXCEPT !.unsubscribe = 1]
       ELSE /\ bpc' = "d_is_connected"
            /\ effects' = NoEffects
    /\ UNCHANGED <<endpoints, connected, subscribed, requests, pending,
                   after_disconnect>>
    /\ BKeeps

\* self.peripheral.unsubscribe(..).await?; self.endpoints = None
disconnect_unsubscribe_returns(r) ==
    /\ bpc = "d_unsubscribe"
    /\ Plausible(r)
    /\ IF r.tag = "Err"
       THEN /\ BReturn(Err(From_btleplug_Error(r.error)), "unsubscribe")
            /\ UNCHANGED <<endpoints, subscribed>>
       ELSE /\ subscribed' = FALSE
            /\ endpoints' = "None"
            /\ bpc' = "d_is_connected"
            /\ UNCHANGED <<bcall, bresult>>
    /\ UNCHANGED <<connected, bsnap, effects, requests, pending, after_disconnect>>
    /\ BKeeps

\* if self.peripheral.is_connected().await? { disconnect is called } Ok(())
disconnect_is_connected_returns(r) ==
    /\ bpc = "d_is_connected"
    /\ Plausible(r)
    /\ r \in {Ok(connected)} \cup {Err(e) : e \in PeripheralErrors}
    /\ IF r.tag = "Err"
       THEN /\ BReturn(Err(From_btleplug_Error(r.error)), "is_connected")
            /\ UNCHANGED <<effects, after_disconnect>>
       ELSE IF r.value
       THEN /\ bpc' = "d_disconnect"
            /\ effects' = [effects EXCEPT !.disconnect = 1]
            /\ UNCHANGED <<bcall, bresult, after_disconnect>>
       ELSE /\ BReturn(Ok("unit"), "none")
            /\ after_disconnect' = TRUE
            /\ UNCHANGED effects
    /\ UNCHANGED <<endpoints, connected, subscribed, bsnap, requests, pending>>
    /\ BKeeps

\* self.peripheral.disconnect().await?; Ok(())
disconnect_disconnect_returns(r) ==
    /\ bpc = "d_disconnect"
    /\ Plausible(r)
    /\ IF r.tag = "Err"
       THEN /\ BReturn(Err(From_btleplug_Error(r.error)), "disconnect")
            /\ UNCHANGED <<connected, subscribed, after_disconnect>>
       ELSE /\ connected' = FALSE
            /\ subscribed' = FALSE
            /\ BReturn(Ok("unit"), "none")
            /\ after_disconnect' = TRUE
    /\ UNCHANGED <<endpoints, bsnap, effects, requests, pending>>
    /\ BKeeps

\* ---- is_connected ----
is_connected ==
    /\ BReady
    /\ Begin("is_connected", <<>>, 0)
    /\ bresult' = NoResult
    /\ effects' = NoEffects
    /\ bpc' = "i_is_connected"
    /\ UNCHANGED <<endpoints, connected, subscribed, requests, pending,
                   after_disconnect>>
    /\ BKeeps

\* Ok(self.peripheral.is_connected().await? && self.endpoints.is_some())
is_connected_returns(r) ==
    /\ bpc = "i_is_connected"
    /\ Plausible(r)
    /\ r \in {Ok(connected)} \cup {Err(e) : e \in PeripheralErrors}
    /\ IF r.tag = "Err"
       THEN BReturn(Err(From_btleplug_Error(r.error)), "is_connected")
       ELSE BReturn(Ok(r.value /\ endpoints = "Some"), "none")
    /\ UNCHANGED <<endpoints, connected, subscribed, bsnap, effects, requests,
                   pending, after_disconnect>>
    /\ BKeeps

\* ---- request / request_internal ----
\* match &self.endpoints: None -> Err(NotConnected); Some -> write is called
request(d) ==
    /\ BReady
    /\ requests < MaxRequests
    /\ requests' = requests + 1
    /\ Begin("request", d, requests + 1)
    /\ IF endpoints = "None"
       THEN /\ bresult' = Err(From_btleplug_Error("NotConnected"))
            /\ bpc' = "returned"
            /\ effects' = NoEffects
       ELSE /\ bresult' = NoResult
            /\ bpc' = "r_write"
            /\ effects' = [NoEffects EXCEPT !.write = 1]
    /\ UNCHANGED <<endpoints, connected, subscribed, pending, after_disconnect>>
    /\ BKeeps

\* self.peripheral.write(..).await?; the device has the frame and answers it
\* later, or never
request_write_returns(r, answers) ==
    /\ bpc = "r_write"
    /\ Plausible(r)
    /\ IF r.tag = "Err"
       THEN /\ BReturn(Err(From_btleplug_Error(r.error)), "write")
            /\ UNCHANGED pending
       ELSE /\ bpc' = "r_notifications"
            /\ pending' = IF answers THEN pending \cup {bcall.serial} ELSE pending
            /\ UNCHANGED <<bcall, bresult>>
    /\ UNCHANGED <<endpoints, connected, subscribed, bsnap, effects, requests,
                   after_disconnect>>
    /\ BKeeps

\* self.peripheral.notifications().await?.take(1): the stream sees the
\* notifications emitted from now on
request_notifications_returns(r) ==
    /\ bpc = "r_notifications"
    /\ Plausible(r)
    /\ IF r.tag = "Err"
       THEN BReturn(Err(From_btleplug_Error(r.error)), "notifications")
       ELSE /\ bpc' = "r_next"
            /\ UNCHANGED <<bcall, bresult>>
    /\ UNCHANGED <<endpoints, connected, subscribed, bsnap, effects, requests,
                   pending, after_disconnect>>
    /\ BKeeps

\* the common format of a notification's value
Normalised(value, d) ==
    IF value # <<>> /\ Last(value) = 36
    THEN <<d[1]>> \o SubSeq(value, 1, Len(value) - 1)
    ELSE value

\* the device emits its answer to request n.  A call waiting in
\* notify_stream.next() takes it (Some(in_data)) and returns it in the
\* common format; data.first().unwrap() panics on an empty frame.  With no
\* stream open the notification is lost.
device_notifies(n, form) ==
    /\ n \in pending
    /\ pending' = pending \ {n}
    /\ IF bpc = "r_next"
       THEN IF Notification(n, form) # <<>> /\ Last(Notification(n, form)) = 36
               /\ bcall.data = <<>>
            THEN /\ bresult' = Panicked
                 /\ bpc' = "panicked"
                 /\ bcall' = [bcall EXCEPT !.delivered = n, !.last = bpc]
            ELSE /\ bresult' = Ok(Normalised(Notification(n, form), bcall.data))
                 /\ bpc' = "returned"
                 /\ bcall' = [bcall EXCEPT !.delivered = n, !.last = bpc]
       ELSE UNCHANGED <<bpc, bcall, bresult>>
    /\ UNCHANGED <<endpoints, connected, subscribed, bsnap, effects, requests,
                   after_disconnect>>
    /\ BKeeps

\* notify_stream.next() yields None: Err(RuntimeError("no response"))
stream_ends ==
    /\ bpc = "r_next"
    /\ BReturn(Err(From_btleplug_Error("RuntimeError")), "stream")
    /\ UNCHANGED <<endpoints, connected, subscribed, bsnap, effects, requests,
                   pending, after_disconnect>>
    /\ BKeeps

\* slip: the wait for the notification is not covered by the timer
timeout_elapses_not_in_next ==
    /\ bpc \notin {"idle", "returned", "panicked", "r_next"}
    /\ bcall.name \in {"connect", "disconnect", "request"}
    /\ BReturn(Err(as_timeout_error("Elapsed")), "none")
    /\ UNCHANGED <<endpoints, connected, subscribed, bsnap, effects, requests,
                   pending, after_disconnect>>
    /\ BKeeps
\* tokio::time::timeout(timeout, ..) of connect, disconnect and request:
\* the timer fires while the call stands at an await;
\* ret.map_err(as_timeout_error)
timeout_elapses ==
    /\ bpc \notin {"idle", "returned", "panicked"}
    /\ bcall.name \in {"connect", "disconnect", "request"}
    /\ BReturn(Err(as_timeout_error("Elapsed")), "none")
    /\ UNCHANGED <<endpoints, connected, subscribed, bsnap, effects, requests,
                   pending, after_disconnect>>
    /\ BKeeps

\* the device goes out of range or is switched off
link_lost ==
    /\ connected
    /\ connected' = FALSE
    /\ subscribed' = FALSE
    /\ UNCHANGED <<endpoints, bpc, bcall, bresult, bsnap, effects, requests,
                   pending, after_disconnect>>
    /\ BKeeps

BleInit ==
    /\ BackendBLE_new
    /\ ControlUnit_new
    /\ data = <<>>
    /\ overflow_checks \in BOOLEAN
    /\ CodecIdle

BleNext ==
    \/ connect
    \/ \E r \in IsConnectedReturns :
          connect_is_connected_returns(r)
    \/ \E r \in PeripheralReturns : connect_connect_returns(r)
    \/ \E r \in PeripheralReturns, found \in BOOLEAN : connect_discover_returns(r, found)
    \/ \E r \in PeripheralReturns : connect_subscribe_returns(r)
    \/ disconnect
    \/ \E r \in PeripheralReturns : disconnect_unsubscribe_returns(r)
    \/ \E r \in IsConnectedReturns :
          disconnect_is_connected_returns(r)
    \/ \E r \in PeripheralReturns : disconnect_disconnect_returns(r)
    \/ is_connected
    \/ \E r \in IsConnectedReturns : is_connected_returns(r)
    \/ \E d \in RequestData : request(d)
    \/ \E r \in PeripheralReturns, answers \in BOOLEAN : request_write_returns(r, answers)
    \/ \E r \in PeripheralReturns : request_notifications_returns(r)
    \/ \E n \in 1..MaxRequests, form \in NotificationForms : device_notifies(n, form)
    \/ stream_ends
    \/ timeout_elapses
    \/ link_lost

BleSpec == BleInit /\ [][BleNext]_vars

\* the tokio timer of a call in flight fires unless the call returns first
BleFairSpec == BleSpec /\ WF_vars(timeout_elapses)

(***************************************************************************)
(* Claims about the BLE transport.                                         *)
(***************************************************************************)
\* a request call on a connected backend has returned and no notification
\* reached it
SilentRequestReturned ==
    /\ bpc = "returned"
    /\ bcall.name = "request"
    /\ bsnap.endpoints = "Some"
    /\ bsnap.connected
    /\ bcall.delivered = 0

\* C4 as stated: a request on a connected backend that no notification
\* reaches returns Error::TimedOut and no other error kind.
C4_SilentRequestTimesOut ==
    SilentRequestReturned => bresult = Err("TimedOut")

RequestInFlight ==
    /\ bcall.name = "request"
    /\ bpc \in {"r_write", "r_notifications", "r_next"}

\* C4 amended, the result: with the write and the notification stream
\* obtained and the stream open, the silent request returns TimedOut; when
\* one of them failed it returns that transport error.
C4_SilentRequestResult ==
    SilentRequestReturned =>
        /\ bcall.failed = "none" => bresult = Err("TimedOut")
        /\ bcall.failed = "stream" => bresult = Err("RuntimeError")
        /\ bcall.failed \in {"write", "notifications"} =>
              /\ bresult.tag = "Err"
              /\ bresult.error \in {From_btleplug_Error(e) : e \in PeripheralErrors}

\* C4 amended: a request on a connected backend that no notification
\* reaches returns Error::TimedOut unless the peripheral's write or
\* notifications() call failed or the notification stream ended, and a
\* request in flight always returns.
C4_RequestReturnsTimedOut ==
    /\ []C4_SilentRequestResult
    /\ (RequestInFlight ~> ~RequestInFlight)

C4_Witness ==
    /\ SilentRequestReturned
    /\ bcall.failed = "none"
    /\ bcall.last = "r_next"
    /\ bresult = Err("TimedOut")

\* the latest call is a disconnect that started with the peripheral not
\* connected and no endpoints stored
IdleDisconnect ==
    /\ bcall.name = "disconnect"
    /\ bsnap.endpoints = "None"
    /\ ~bsnap.connected

\* C5 as stated: such a disconnect returns Ok, calls neither unsubscribe nor
\* the peripheral's disconnect and leaves the state as it was; after a
\* successful disconnect is_connected reports false.
C5_IdleDisconnectReturnsOk ==
    /\ (IdleDisconnect /\ bpc = "returned") =>
          /\ bresult = Ok("unit")
          /\ effects.unsubscribe = 0
          /\ effects.disconnect = 0
          /\ endpoints = "None"
          /\ ~connected
    /\ (after_disconnect /\ bcall.name = "is_connected" /\ bpc = "returned") =>
          bresult = Ok(FALSE)

\* C5 amended: such a disconnect calls neither unsubscribe nor the
\* peripheral's disconnect, leaves the state as it was, and returns Ok
\* unless the peripheral's is_connected query failed or the timer fired;
\* after a successful disconnect and until the next connect no endpoints
\* are stored, the peripheral is not connected and is_connected never
\* reports true.
C5_IdleDisconnectIsNoOp ==
    /\ IdleDisconnect =>
          /\ effects.unsubscribe = 0
          /\ effects.disconnect = 0
          /\ endpoints = "None"
          /\ ~connected
          /\ subscribed = bsnap.subscribed
          /\ bpc = "returned" =>
                IF bcall.failed = "is_connected"
                THEN bresult.tag = "Err"
                ELSE bresult \in {Ok("unit"), Err("TimedOut")}
    /\ after_disconnect =>
          /\ endpoints = "None"
          /\ ~connected
          /\ (bcall.name = "is_connected" /\ bpc = "returned") =>
                (bresult.tag = "Err" \/ bresult = Ok(FALSE))

C5_Witness ==
    /\ IdleDisconnect
    /\ bsnap.after_disconnect
    /\ bpc = "returned"
    /\ bresult = Ok("unit")

(***************************************************************************)
(* Claims about the orchestrator.                                          *)
(***************************************************************************)
\* f is a set-word frame for the given address carrying the given nibble
IsSetWord(f, address, value) ==
    /\ Len(f) = 6
    /\ f[1] = 74
    /\ f[2] + 16 * f[3] = address
    /\ f[4] = 48 + value

\* the exchange succeeded: the backend returned bytes and their first byte
\* echoes the request's first byte
Accepted(req, r) ==
    /\ r.tag = "Ok"
    /\ r.value # <<>>
    /\ r.value[1] = req[1]

\* the error a failed exchange ends with
ErrorOf(r) == IF r.tag = "Err" THEN r ELSE Err("InvalidResponse")

\* C1: set_lap sends the set-lap-high exchange (address 0xF1, value
\* (lap as u8) >> 4) before the set-lap-low exchange (address 0xF2, value
\* (lap as u8) & 0x0F); when the high exchange fails set_lap returns that
\* error and the low exchange is never sent; set_lap returns Ok only after
\* both exchanges succeeded in that order.
C1_SetLapHighThenLow ==
    op.name = "set_lap" =>
        LET lap == op.args[1] % 256
        IN  /\ Len(sent) \in {1, 2}
            /\ IsSetWord(sent[1].data, 241, lap \div 16)
            /\ Len(sent) = 2 =>
                  /\ IsSetWord(sent[2].data, 242, lap % 16)
                  /\ Len(replies) >= 1
                  /\ Accepted(sent[1].data, replies[1])
            /\ (Len(replies) >= 1 /\ ~Accepted(sent[1].data, replies[1])) =>
                  /\ pc = "returned"
                  /\ Len(sent) = 1
                  /\ result = ErrorOf(replies[1])
            /\ (pc = "returned" /\ result.tag = "Ok") =>
                  /\ Len(sent) = 2
                  /\ Len(replies) = 2
                  /\ Accepted(sent[1].data, replies[1])
                  /\ Accepted(sent[2].data, replies[2])

C1_Witness ==
    /\ op.name = "set_lap"
    /\ op.args[1] = 291
    /\ pc = "returned"
    /\ result.tag = "Ok"
    /\ Len(sent) = 2

\* C2: every invocation of a single-exchange operation calls
\* backend.request exactly once, with the configured timeout, whatever the
\* outcome; nothing is sent again after a timeout, a transport error or a
\* decode failure.
C2_ExactlyOneRequest ==
    (op.name \notin {"none", "set_lap"}) =>
        /\ Len(sent) = 1
        /\ sent[1].timeout = timeout
        /\ pc \in {"await", "returned", "panicked"}

C2_Witness ==
    /\ op.name = "get_status"
    /\ pc = "returned"
    /\ Last(replies) = Err("TimedOut")
    /\ timeout = 500
    /\ Len(sent) = 1

\* what the decoder matching the request in flight makes of the bytes
MatchingDecoder(bytes) ==
    IF op.name = "get_status" THEN decode_status(bytes)
    ELSE IF op.name = "get_version" THEN decode_version(bytes)
    ELSE decode_empty(Last(sent).data, bytes)

\* C3: an error returned by backend.request is returned unchanged; bytes the
\* matching decoder rejects give Error::InvalidResponse; a success value is
\* returned only when the decoder produced that value.
C3_ErrorsAndValues ==
    pc = "returned" =>
        /\ Last(replies).tag = "Err" => result = Last(replies)
        /\ (Last(replies).tag = "Ok"
               /\ MatchingDecoder(Last(replies).value) = NoValue)
              => result = Err("InvalidResponse")
        /\ result.tag = "Ok" =>
              /\ Last(replies).tag = "Ok"
              /\ MatchingDecoder(Last(replies).value) # NoValue
              /\ result.value = MatchingDecoder(Last(replies).value)

C3_Witness ==
    /\ pc = "returned"
    /\ op.name = "get_status"
    /\ Last(replies).tag = "Ok"
    /\ Len(Last(replies).value) = 16
    /\ result = Err("InvalidResponse")

(***************************************************************************)
(* Claims about the codec.                                                 *)
(***************************************************************************)
Examined == out # NotRun

\* F[i] + F[i+1] + ... + F[len-2] (0-based), the bytes strictly between the
\* leading and the trailing byte when i = 1
RECURSIVE InteriorSum(_, _)
InteriorSum(F, i) ==
    IF i >= Len(F) - 1 THEN 0 ELSE At(F, i) + InteriorSum(F, i + 1)

\* C6: check_checksum(F) is true iff len(F) >= 2 and the low nibble of the
\* last byte equals the low nibble of the sum of F[1..len-1]; sequences of
\* length 0 or 1 are never valid.
C6_CheckChecksumIff ==
    Examined =>
        (out.valid <=>
            (/\ Len(data) >= 2
             /\ data[Len(data)] % 16 = InteriorSum(data, 1) % 16))

C6_Witness ==
    /\ Examined
    /\ out.valid
    /\ Len(data) >= 3
    /\ At(data, 0) % 16 # 0
    /\ At(data, 1) % 16 # 0

\* the replacement hit a byte strictly between the leading and trailing byte
ReplacedInterior ==
    /\ mut.kind = "replace"
    /\ Len(prev.data) >= 2
    /\ mut.index >= 1
    /\ mut.index <= Len(prev.data) - 2

\* C7 as stated: replacing any single payload byte of a checksum-valid
\* frame by any different byte value makes check_checksum fail.
C7_AnyReplacementFails ==
    (ReplacedInterior /\ prev.out.valid /\ Examined) => ~out.valid

\* C7 amended: replacing a single interior byte of a checksum-valid frame by
\* a byte whose low nibble differs from the original's makes check_checksum
\* fail.
C7_NibbleChangingReplacementFails ==
    (/\ ReplacedInterior
     /\ prev.out.valid
     /\ mut.value % 16 # At(prev.data, mut.index) % 16
     /\ Examined) => ~out.valid

C7_Witness ==
    /\ ReplacedInterior
    /\ prev.out.valid
    /\ mut.value % 16 # At(prev.data, mut.index) % 16
    /\ Examined
    /\ ~out.valid

\* C8: the last byte of every frame built by a command constructor is
\* '0' plus the low nibble of the sum of all preceding bytes.
C8_TrailingByteIsBasePlusChecksum ==
    frame # <<>> =>
        frame[Len(frame)] = 48 + (SumBytes(SubSeq(frame, 1, Len(frame) - 1)) % 16)

\* C9: decode_track_status(D) returns a TrackStatus iff len(D) is 14 or 16,
\* D[0] = '?' and D[1] = ':', the checksum is valid and the low nibble of
\* D[10] is a start-signal code.
C9_TrackAcceptedIff ==
    Examined =>
        ((out.track # NoValue) <=>
            (/\ Len(data) \in {14, 16}
             /\ At(data, 0) = 63
             /\ At(data, 1) = 58
             /\ check_checksum(data)
             /\ (At(data, 10) % 16) \in {0, 2, 3, 4, 5, 6, 7}))

\* a 14-byte frame with the markers, a valid checksum and a start-signal
\* code at the fixed offset
WellFormedTrackFrame14(D) ==
    /\ Len(D) = 14
    /\ At(D, 0) = 63
    /\ At(D, 1) = 58
    /\ check_checksum(D)
    /\ (At(D, 10) % 16) \in {0, 2, 3, 4, 5, 6, 7}

Nibble(i) == At(data, i) % 16

\* C11: for every 12-byte D with D[0] = '?' and a valid checksum,
\* decode_status(D) returns a Lap variant with controller = (D[1] & 0x0F) - 1,
\* sector = D[10] & 0x0F and the time whose nibbles from least to most
\* significant are the low nibbles of D[8], D[9], D[6], D[7], D[4], D[5],
\* D[2], D[3]; for every other 12-byte D it returns no value.
C11_LapDecoded ==
    (Examined /\ Len(data) = 12) =>
        IF At(data, 0) = 63 /\ data[12] % 16 = InteriorSum(data, 1) % 16
        THEN out.status =
                 [tag |-> "Lap",
                  controller |-> Nibble(1) - 1,
                  time |-> [hi |-> Nibble(4) + 16 * Nibble(5)
                                   + 256 * Nibble(2) + 4096 * Nibble(3),
                            lo |-> Nibble(8) + 16 * Nibble(9)
                                   + 256 * Nibble(6) + 4096 * Nibble(7)],
                  sector |-> Nibble(10)]
        ELSE out.status = NoValue

\* C12: decoding never panics on wire data: for every byte sequence
\* decode_status terminates with a Status value or with no value, also for a
\* checksum-valid 12-byte '?' frame whose controller nibble is 0.
C12_DecodeNeverPanics ==
    Examined =>
        /\ out.status.tag \in {"Track", "Lap", "None"}
        /\ out.track.tag \in {"Track", "None"}
        /\ out.lap.tag \in {"Lap", "None"}

Acknowledged == out.tag = "Acknowledged"

\* C13: decode_empty(Q, R) succeeds iff Q and R are both non-empty and
\* R[0] = Q[0]; no other byte of R influences the outcome (replacing a byte
\* of R other than the first leaves the outcome as it was).
C13_DecodeEmptyIff ==
    Acknowledged =>
        /\ (out.empty # NoValue) <=>
               (/\ Len(frame) > 0
                /\ Len(data) > 0
                /\ data[1] = frame[1])
        /\ (mut.kind = "replace" /\ mut.index >= 1)
               => out.empty = prev.out.empty

C13_Witness ==
    /\ Acknowledged
    /\ mut.kind = "replace"
    /\ mut.index >= 1
    /\ out.empty = [tag |-> "Unit"]
    /\ frame = make_button_press_request(2)
    /\ ~check_checksum(data)

SetLevelNames == {"set_speed_level", "set_brake_level", "set_fuel_level"}

\* the per-attribute address offset of a set-level operation
LevelOffset(name) ==
    CASE name = "set_speed_level" -> 0
      [] name = "set_brake_level" -> 1
      [] name = "set_fuel_level" -> 2

\* the frame the set-level operation name sends for player p and level l
LevelFrame(name, p, l) ==
    CASE name = "set_speed_level" -> make_set_speed_level_request(AsU8(p), AsU8(l))
      [] name = "set_brake_level" -> make_set_brake_level_request(AsU8(p), AsU8(l))
      [] name = "set_fuel_level" -> make_set_fuel_level_request(AsU8(p), AsU8(l))

C15_LevelsClamp ==
    (op.name \in SetLevelNames /\ op.args[2] > 15) =>
        /\ Len(sent) = 1
        /\ sent[1].data[4] = LevelFrame(op.name, op.args[1], 15)[4]

\* C16: no byte sequence is accepted by both decode_track_status and
\* decode_lap_status, so decode_status returns what it would return with the
\* lap decoder tried first.
C16_DecodersDisjoint ==
    Examined =>
        /\ ~(out.track # NoValue /\ out.lap # NoValue)
        /\ out.status = (IF out.lap # NoValue THEN out.lap ELSE out.track)

C16_Witness ==
    /\ Examined
    /\ At(data, 0) = 63
    /\ At(data, 1) = 58
    /\ check_checksum(data)
    /\ out.lap.tag = "Lap"
    /\ out.track = NoValue
    /\ out.status = out.lap

\* C17: with requests issued one at a time, every payload a request call
\* returns is the notification the device emitted in answer to that call's
\* frame, also when an earlier call timed out and its notification comes
\* late: a late notification is never returned to a different request.
C17_ResponseAnswersOwnRequest ==
    (bcall.name = "request" /\ bpc = "returned" /\ bresult.tag = "Ok") =>
        /\ bcall.delivered = bcall.serial
        /\ \E form \in NotificationForms :
               /\ ~(form = "dollar" /\ bcall.data = <<>>)
               /\ bresult.value =
                      Normalised(Notification(bcall.serial, form), bcall.data)

====
